---- MODULE Spec2Model ----
(***************************************************************************)
(* Model of devafatekserial/serial.go: Open / openInternal / makeTermios2. *)
(* One call of Open(options) is followed from the device open to the       *)
(* return.  The kernel is the environment: every system call draws its     *)
(* outcome nondeterministically.  Flag words (tcflag_t, the RS-485 flags   *)
(* word) are modelled as the set of their set bit positions, so that       *)
(* bitwise OR is set union and bit 31 (CRTSCTS) is representable.          *)
(***************************************************************************)
EXTENDS Integers, Sequences, FiniteSets, TLC

VARIABLES options, pc, calls, fds, t2, optErr, result

vars == <<options, pc, calls, fds, t2, optErr, result>>

\* ------------------------------------------------------------------ bounds
MaxDataBits == 9
MaxStopBits == 3
MaxParityMode == 3
MaxDelay == 1
MaxTimeout == 25700
MaxReadOver == 1

\* --------------------------------------------------------- program constants
kTCSETS2 == 1076646955
kNCCS == 19
tIOCSRS485 == 21551
VTIME == 5
VMIN == 6
PARITY_NONE == 0
PARITY_ODD == 1
PARITY_EVEN == 2

\* Bit positions set in a non-negative number (a flag word given in hex).
RECURSIVE BitsFrom(_, _)
BitsFrom(n, i) ==
    IF n = 0 THEN {}
    ELSE (IF n % 2 = 1 THEN {i} ELSE {}) \cup BitsFrom(n \div 2, i + 1)

BitsOf(n) == BitsFrom(n, 0)

kBOTHER == BitsOf(4096)       \* 0x1000
CLOCAL  == BitsOf(2048)       \* 0x800
CREAD   == BitsOf(128)        \* 0x80
CSTOPB  == BitsOf(64)         \* 0x40
PARENB  == BitsOf(256)        \* 0x100
PARODD  == BitsOf(512)        \* 0x200
CS5     == BitsOf(0)          \* 0x00
CS6     == BitsOf(16)         \* 0x10
CS7     == BitsOf(32)         \* 0x20
CS8     == BitsOf(48)         \* 0x30
CRTSCTS == {31}               \* 0x80000000

sER_RS485_ENABLED        == BitsOf(1)
sER_RS485_RTS_ON_SEND    == BitsOf(2)
sER_RS485_RTS_AFTER_SEND == BitsOf(4)
sER_RS485_RX_DURING_TX   == BitsOf(16)

\* ------------------------------------------------------------ integer widths
\* cc_t is a byte: the conversion keeps the low 8 bits.
cc_t(x) == x % 256

\* speed_t, tcflag_t and uint32 keep the low 32 bits (two 16-bit halves).
uint32(x) == (x % 65536) + 65536 * ((x \div 65536) % 65536)

speed_t(x) == uint32(x)

\* ------------------------------------------------------------------- errors
NoErr == [kind |-> "nil", text |-> "", errno |-> 0]

errorsNew(text) == [kind |-> "errorString", text |-> text, errno |-> 0]

NewSyscallError(name, errno) == [kind |-> "SyscallError", text |-> name, errno |-> errno]

PathError(op, errno) == [kind |-> "PathError", text |-> op, errno |-> errno]

Errno(errno) == [kind |-> "Errno", text |-> "", errno |-> errno]

\* ---------------------------------------------------------------- round
\* round(f) = math.Floor(f + 0.5) for f = num/den; exact in float64 for the
\* values modelled (num/100 is at least 1/100 away from a half unless exact).
roundTruncates(num, den) == num \div den

round(num, den) == (2 * num + den) \div (2 * den)

\* ------------------------------------------------------------ makeTermios2
\* Line 81: a zero minimum read size needs a (rounded) timeout of at least 100.
ReadBlockingInvalid(vmin, vtime) == vmin = 0 /\ vtime < 100

TimeoutTooLargeOffByOne(vtime) == vtime >= 25500

\* Line 85: cap on the (rounded) timeout.
TimeoutTooLarge(vtime) == vtime > 25500

\* switch options.StopBits
StopBitsCase(stopBits) ==
    CASE stopBits = 1 -> [ok |-> TRUE, flags |-> {}]
      [] stopBits = 2 -> [ok |-> TRUE, flags |-> CSTOPB]
      [] OTHER        -> [ok |-> FALSE, flags |-> {}]

ParityCaseOddAsEven(parityMode) ==
    CASE parityMode = PARITY_NONE -> [ok |-> TRUE, flags |-> {}]
      [] parityMode = PARITY_ODD  -> [ok |-> TRUE, flags |-> PARENB]
      [] parityMode = PARITY_EVEN -> [ok |-> TRUE, flags |-> PARENB]
      [] OTHER                    -> [ok |-> FALSE, flags |-> {}]

\* switch options.ParityMode
ParityCase(parityMode) ==
    CASE parityMode = PARITY_NONE -> [ok |-> TRUE, flags |-> {}]
      [] parityMode = PARITY_ODD  -> [ok |-> TRUE, flags |-> PARENB \cup PARODD]
      [] parityMode = PARITY_EVEN -> [ok |-> TRUE, flags |-> PARENB]
      [] OTHER                    -> [ok |-> FALSE, flags |-> {}]

DataBitsCaseDefaultsToEight(dataBits) ==
    CASE dataBits = 5 -> [ok |-> TRUE, flags |-> CS5]
      [] dataBits = 6 -> [ok |-> TRUE, flags |-> CS6]
      [] dataBits = 7 -> [ok |-> TRUE, flags |-> CS7]
      [] OTHER        -> [ok |-> TRUE, flags |-> CS8]

\* switch options.DataBits
DataBitsCase(dataBits) ==
    CASE dataBits = 5 -> [ok |-> TRUE, flags |-> CS5]
      [] dataBits = 6 -> [ok |-> TRUE, flags |-> CS6]
      [] dataBits = 7 -> [ok |-> TRUE, flags |-> CS7]
      [] dataBits = 8 -> [ok |-> TRUE, flags |-> CS8]
      [] OTHER        -> [ok |-> FALSE, flags |-> {}]

\* The result is the pair (pointer, error); the pointer is a sequence that is
\* empty for nil and holds the termios2 value otherwise.
makeTermios2(o) ==
    LET vtime  == round(o.InterCharacterTimeout, 100) * 100
        vmin   == o.MinimumReadSize
        ccOpts == [i \in 0..(kNCCS - 1) |->
                      IF i = VTIME THEN cc_t(vtime \div 100)
                      ELSE IF i = VMIN THEN cc_t(vmin)
                      ELSE 0]
        sb     == StopBitsCase(o.StopBits)
        pm     == ParityCase(o.ParityMode)
        db     == DataBitsCase(o.DataBits)
        fc     == IF o.RTSCTSFlowControl THEN CRTSCTS ELSE {}
        fail(text) == [t2 |-> << >>, err |-> errorsNew(text)]
    IN  IF ReadBlockingInvalid(vmin, vtime)
          THEN fail("invalid values for InterCharacterTimeout and MinimumReadSize")
        ELSE IF TimeoutTooLarge(vtime)
          THEN fail("invalid value for InterCharacterTimeout")
        ELSE IF ~sb.ok THEN fail("invalid setting for StopBits")
        ELSE IF ~pm.ok THEN fail("invalid setting for ParityMode")
        ELSE IF ~db.ok THEN fail("invalid setting for DataBits")
        ELSE [t2 |-> << [c_iflag  |-> {},
                         c_oflag  |-> {},
                         c_cflag  |-> CLOCAL \cup CREAD \cup kBOTHER \cup sb.flags
                                         \cup pm.flags \cup db.flags \cup fc,
                         c_lflag  |-> {},
                         c_line   |-> 0,
                         c_cc     |-> ccOpts,
                         c_ispeed |-> speed_t(o.BaudRate),
                         c_ospeed |-> speed_t(o.BaudRate)] >>,
              err |-> NoErr]

\* ------------------------------------------------------------ RS-485 block
makeRs485AlwaysAllFlags(o) ==
    [flags |-> sER_RS485_ENABLED \cup sER_RS485_RTS_ON_SEND
                 \cup (IF o.Rs485RtsHighAfterSend THEN sER_RS485_RTS_AFTER_SEND ELSE {}),
     delay_rts_before_send |-> uint32(o.Rs485DelayRtsBeforeSend),
     delay_rts_after_send  |-> uint32(o.Rs485DelayRtsAfterSend),
     padding |-> <<0, 0, 0, 0, 0>>]

makeRs485(o) ==
    [flags |-> sER_RS485_ENABLED
                 \cup (IF o.Rs485RtsHighDuringSend THEN sER_RS485_RTS_ON_SEND ELSE {})
                 \cup (IF o.Rs485RtsHighAfterSend THEN sER_RS485_RTS_AFTER_SEND ELSE {}),
     delay_rts_before_send |-> uint32(o.Rs485DelayRtsBeforeSend),
     delay_rts_after_send  |-> uint32(o.Rs485DelayRtsAfterSend),
     padding |-> <<0, 0, 0, 0, 0>>]

\* ------------------------------------------------- control-call classification
ioctlErrResultFirst(name, unknownText, r, errno) ==
    IF r # 0 THEN errorsNew(unknownText)
    ELSE IF errno # 0 THEN NewSyscallError(name, errno)
    ELSE NoErr

\* if errno != 0 {...}; if r != 0 {...}
ioctlErr(name, unknownText, r, errno) ==
    IF errno # 0 THEN NewSyscallError(name, errno)
    ELSE IF r # 0 THEN errorsNew(unknownText)
    ELSE NoErr

\* --------------------------------------------------------------- environment
OpenErrnos == {2, 13}          \* ENOENT, EACCES
FcntlErrnos == {9}             \* EBADF
IoctlErrnos == {0, 25}         \* none, ENOTTY
IoctlResults == {0, 1}

lowestFree(open) ==
    CHOOSE n \in 3..(3 + Cardinality(open)) :
        n \notin open /\ \A m \in 3..(n - 1) : m \in open

NoResult == [file |-> {}, err |-> NoErr]

Call(name, req, arg, r, errno) ==
    [name |-> name, req |-> req, arg |-> arg, r |-> r, errno |-> errno]

\* ------------------------------------------------------------------ options
BaudRates == {9600, 250007}

OptionsSpace(bauds, timeouts, minSizes, dataBits, stopBits, parities, bools, delays) ==
    [PortName : {"/dev/ttyS0"},
     BaudRate : bauds,
     DataBits : dataBits,
     StopBits : stopBits,
     ParityMode : parities,
     RTSCTSFlowControl : bools,
     InterCharacterTimeout : timeouts,
     MinimumReadSize : minSizes,
     Rs485Enable : BOOLEAN,
     Rs485RtsHighDuringSend : bools,
     Rs485RtsHighAfterSend : bools,
     Rs485RxDuringTx : bools,
     Rs485DelayRtsBeforeSend : delays,
     Rs485DelayRtsAfterSend : delays]

\* Every frame format, legal or not, with the two basic read configurations.
FrameOptions ==
    OptionsSpace(BaudRates, {0}, {0, 1}, 0..MaxDataBits, 0..MaxStopBits, 0..MaxParityMode,
                 BOOLEAN, 0..MaxDelay)

\* A legal frame with every timeout up to beyond the cap and minimum read
\* sizes around the width of the one-byte slot.
Timeouts == 0..MaxTimeout

MinSizes == {0, 1} \cup (255..(256 + MaxReadOver))

ReadOptions ==
    OptionsSpace({9600}, Timeouts, MinSizes, {8}, {1}, {PARITY_NONE}, {FALSE}, {0})

\* --------------------------------------------------------------------- Init
InitCommon ==
    /\ pc = "open"
    /\ calls = << >>
    /\ fds = << >>
    /\ t2 = << >>
    /\ optErr = NoErr
    /\ result = NoResult

Init == options \in FrameOptions /\ InitCommon

InitRead == options \in ReadOptions /\ InitCommon

\* ------------------------------------------------------------------ actions
\* Lines 144-151: os.OpenFile(PortName, O_RDWR|O_NOCTTY|O_NONBLOCK, 0600).
OpenFile ==
    /\ pc = "open"
    /\ \E e \in {0} \cup OpenErrnos :
         LET fd  == lowestFree(DOMAIN fds)
             arg == << [path  |-> options.PortName,
                        flags |-> {"O_RDWR", "O_NOCTTY", "O_NONBLOCK"},
                        perm  |-> 384] >>
         IN  IF e = 0
               THEN /\ calls' = Append(calls, Call("open", 0, arg, fd, 0))
                    /\ fds' = (fd :> [nonblock |-> TRUE]) @@ fds
                    /\ pc' = "nonblock"
                    /\ result' = result
               ELSE /\ calls' = Append(calls, Call("open", 0, arg, -1, e))
                    /\ fds' = fds
                    /\ pc' = "done"
                    /\ result' = [file |-> {}, err |-> PathError("open", e)]
    /\ UNCHANGED <<options, t2, optErr>>

\* The descriptor held by the local variable file.
file == calls[1].r

SetNonblockIgnoresFailure ==
    /\ pc = "nonblock"
    /\ \E e \in {0} \cup FcntlErrnos :
         /\ calls' = Append(calls, Call("setnonblock", 0, << >>, IF e = 0 THEN 0 ELSE -1, e))
         /\ fds' = IF e = 0 THEN [fds EXCEPT ![file].nonblock = FALSE] ELSE fds
         /\ pc' = "mktermios"
         /\ result' = result
    /\ UNCHANGED <<options, t2, optErr>>

\* Lines 153-157: syscall.SetNonblock(fd, false).
SetNonblock ==
    /\ pc = "nonblock"
    /\ \E e \in {0} \cup FcntlErrnos :
         /\ calls' = Append(calls, Call("setnonblock", 0, << >>, IF e = 0 THEN 0 ELSE -1, e))
         /\ IF e = 0
              THEN /\ fds' = [fds EXCEPT ![file].nonblock = FALSE]
                   /\ pc' = "mktermios"
                   /\ result' = result
              ELSE /\ fds' = fds
                   /\ pc' = "done"
                   /\ result' = [file |-> {}, err |-> Errno(e)]
    /\ UNCHANGED <<options, t2, optErr>>

\* Lines 159-162: t2, optErr := makeTermios2(options).
BuildTermios2 ==
    /\ pc = "mktermios"
    /\ LET m == makeTermios2(options)
       IN  /\ t2' = m.t2
           /\ optErr' = m.err
           /\ IF m.err # NoErr
                THEN pc' = "done" /\ result' = [file |-> {}, err |-> m.err]
                ELSE pc' = "tcsets2" /\ result' = result
    /\ UNCHANGED <<options, calls, fds>>

\* Lines 164-176: ioctl(fd, TCSETS2, t2).
IoctlTCSETS2 ==
    /\ pc = "tcsets2"
    /\ \E r \in IoctlResults, errno \in IoctlErrnos :
         LET err == ioctlErr("SYS_IOCTL", "unknown error from SYS_IOCTL", r, errno)
         IN  /\ calls' = Append(calls, Call("ioctl", kTCSETS2, t2, r, errno))
             /\ IF err # NoErr
                  THEN pc' = "done" /\ result' = [file |-> {}, err |-> err]
                  ELSE /\ pc' = IF options.Rs485Enable THEN "rs485" ELSE "return"
                       /\ result' = result
    /\ UNCHANGED <<options, fds, t2, optErr>>

\* Lines 178-207: ioctl(fd, TIOCSRS485, &rs485), only if options.Rs485Enable.
IoctlRS485 ==
    /\ pc = "rs485"
    /\ options.Rs485Enable
    /\ \E r \in IoctlResults, errno \in IoctlErrnos :
         LET err == ioctlErr("SYS_IOCTL (RS485)", "Unknown error from SYS_IOCTL (RS485)",
                             r, errno)
         IN  /\ calls' = Append(calls, Call("ioctl", tIOCSRS485, << makeRs485(options) >>, r, errno))
             /\ IF err # NoErr
                  THEN pc' = "done" /\ result' = [file |-> {}, err |-> err]
                  ELSE pc' = "return" /\ result' = result
    /\ UNCHANGED <<options, fds, t2, optErr>>

\* Line 209: return file, nil.
ReturnFile ==
    /\ pc = "return"
    /\ pc' = "done"
    /\ result' = [file |-> {file}, err |-> NoErr]
    /\ UNCHANGED <<options, calls, fds, t2, optErr>>

Next ==
    \/ OpenFile
    \/ SetNonblock
    \/ BuildTermios2
    \/ IoctlTCSETS2
    \/ IoctlRS485
    \/ ReturnFile

Spec == Init /\ [][Next]_vars

SpecRead == InitRead /\ [][Next]_vars

\* ------------------------------------------------------------- vocabulary
InvalidConfigTexts ==
    {"invalid values for InterCharacterTimeout and MinimumReadSize",
     "invalid value for InterCharacterTimeout",
     "invalid setting for StopBits",
     "invalid setting for ParityMode",
     "invalid setting for DataBits"}

IsInvalidConfig(err) == err.kind = "errorString" /\ err.text \in InvalidConfigTexts

CallNames == [i \in 1..Len(calls) |-> <<calls[i].name, calls[i].req>>]

Ioctls(req) == {i \in 1..Len(calls) : calls[i].name = "ioctl" /\ calls[i].req = req}

CallOk(c) == c.errno = 0 /\ (c.name = "ioctl" => c.r = 0)

\* makeTermios2 has returned.
Built == t2 # << >> \/ optErr # NoErr

Done == pc = "done"

\* An options record that breaks one of the listed validation rules.
ViolatesRule(o) ==
    \/ o.MinimumReadSize = 0 /\ o.InterCharacterTimeout = 0
    \/ o.DataBits \notin {5, 6, 7, 8}
    \/ o.StopBits \notin {1, 2}
    \/ o.ParityMode \notin {PARITY_NONE, PARITY_ODD, PARITY_EVEN}

\* ----------------------------------------------------------------------- C1
\* C1 (as stated): for an options record that violates a validation rule no
\* system call is ever issued, and Open ends with the invalid-configuration
\* error.
C1_ValidationBeforeAnySyscall ==
    ViolatesRule(options) =>
        /\ calls = << >>
        /\ Done => IsInvalidConfig(result.err)

\* C1 (amended): for an options record that violates a validation rule, Open
\* never issues the TCSETS2 or RS-485 control call and returns no stream; the
\* validation runs after the device open and the flag clear, so Open ends with
\* the invalid-configuration error exactly when both of those succeeded, and
\* with their error otherwise.
C1_ValidationBeforeControlCalls ==
    ViolatesRule(options) =>
        /\ Ioctls(kTCSETS2) = {} /\ Ioctls(tIOCSRS485) = {}
        /\ t2 = << >>
        /\ pc \notin {"tcsets2", "rs485", "return"}
        /\ Done =>
             /\ result.file = {} /\ result.err # NoErr
             /\ IsInvalidConfig(result.err) <=>
                    (CallNames = <<<<"open", 0>>, <<"setnonblock", 0>>>>
                       /\ \A i \in 1..2 : CallOk(calls[i]))

C1_Witness ==
    /\ ViolatesRule(options) /\ options.DataBits = 9
    /\ Done /\ IsInvalidConfig(result.err)
    /\ CallNames = <<<<"open", 0>>, <<"setnonblock", 0>>>>

\* ----------------------------------------------------------------------- C2
\* C2: when Open has returned an error, every descriptor it opened has been
\* closed (no descriptor remains open).
C2_NoDescriptorLeak ==
    (Done /\ result.err # NoErr) => DOMAIN fds = {}

\* ----------------------------------------------------------------------- C3
\* C3: MinimumReadSize = 0 with a raw InterCharacterTimeout below 100 is
\* rejected with the invalid-configuration error; MinimumReadSize = 0 with
\* 100 <= timeout <= 25500, and MinimumReadSize > 0 with timeout <= 25500,
\* pass the read-blocking check.
C3_RawTimeoutBelow100Rejected ==
    Built =>
        LET t == options.InterCharacterTimeout
            m == options.MinimumReadSize
        IN  /\ (m = 0 /\ t < 100) => IsInvalidConfig(optErr)
            /\ ((m = 0 /\ 100 <= t /\ t <= 25500) \/ (m > 0 /\ t <= 25500))
                   => optErr = NoErr

\* ----------------------------------------------------------------------- C4
\* C4 (as stated): the cap is checked on the raw timeout: 25500 is accepted
\* and every raw timeout above 25500 is rejected, for every MinimumReadSize.
C4_CapOnRawTimeout ==
    Built =>
        LET t == options.InterCharacterTimeout
        IN  /\ t = 25500 => optErr = NoErr
            /\ t > 25500 => IsInvalidConfig(optErr)

\* C4 (amended): the cap is checked on the timeout rounded half-up to a
\* multiple of 100: for every MinimumReadSize a timeout from 25500 to 25549
\* (rounded value 25500) is accepted and every timeout of 25550 or more
\* (rounded value 25600 or more) is rejected with the cap's error.
C4_CapOnRoundedTimeout ==
    Built =>
        LET t == options.InterCharacterTimeout
        IN  /\ (25500 <= t /\ t <= 25549) => (optErr = NoErr /\ t2 # << >>)
            /\ t >= 25550 =>
                 (t2 = << >> /\ optErr = errorsNew("invalid value for InterCharacterTimeout"))

C4_Witness ==
    /\ options.InterCharacterTimeout = 25501
    /\ Built /\ optErr = NoErr
    /\ Ioctls(kTCSETS2) # {}

\* ----------------------------------------------------------------------- C5
\* C5: for every accepted timeout t the VTIME slot s of the constructed
\* control block is t rounded half-up to the nearest multiple of 100, divided
\* by 100 (100*s - 50 <= t < 100*s + 50), and s fits in 0..255.
C5_VtimeIsRoundedTimeout ==
    t2 # << >> =>
        LET t == options.InterCharacterTimeout
            s == t2[1].c_cc[VTIME]
        IN  /\ s \in 0..255
            /\ 100 * s - 50 <= t /\ t < 100 * s + 50
            /\ t = 149 => s = 1
            /\ t = 150 => s = 2
            /\ t = 25500 => s = 255
            /\ t = 0 => s = 0

C5_Witness ==
    /\ t2 # << >>
    /\ options.InterCharacterTimeout = 150
    /\ t2[1].c_cc[VTIME] = 2

\* ----------------------------------------------------------------------- C6
WidthMask == CS5 \cup CS6 \cup CS7 \cup CS8

ExpectedCflag(o) ==
    {b \in 0..31 :
        \/ b \in CLOCAL \cup CREAD \cup kBOTHER
        \/ b \in CSTOPB /\ o.StopBits = 2
        \/ b \in PARENB /\ o.ParityMode \in {PARITY_ODD, PARITY_EVEN}
        \/ b \in PARODD /\ o.ParityMode = PARITY_ODD
        \/ b = 4 /\ o.DataBits \in {6, 8}
        \/ b = 5 /\ o.DataBits \in {7, 8}
        \/ b \in CRTSCTS /\ o.RTSCTSFlowControl}

StepOrder(o) ==
    <<<<"open", 0>>, <<"setnonblock", 0>>, <<"ioctl", kTCSETS2>>>>
        \o (IF o.Rs485Enable THEN <<<<"ioctl", tIOCSRS485>>>> ELSE << >>)

\* C8: the system calls are issued in the order open, flag clear, TCSETS2,
\* optional RS-485, each at most once, the control block being built between
\* the flag clear and TCSETS2; a failed step is the last one and ends Open
\* with an error and no stream; Open returns a stream iff every required step
\* succeeded.
C8_FixedOrderFirstFailureEnds ==
    /\ Len(calls) <= Len(StepOrder(options))
    /\ \A i \in 1..Len(calls) : CallNames[i] = StepOrder(options)[i]
    /\ \A i \in 1..Len(calls) :
         ~CallOk(calls[i]) => (i = Len(calls) /\ Done /\ result.err # NoErr)
    /\ Built => Len(calls) >= 2
    /\ Ioctls(kTCSETS2) # {} => (t2 # << >> /\ optErr = NoErr)
    /\ optErr # NoErr => (Done /\ result.err = optErr /\ Len(calls) = 2)
    /\ ~Done => result = NoResult
    /\ Done =>
         /\ (result.file # {}) <=> (result.err = NoErr)
         /\ result.err = NoErr <=>
               (/\ CallNames = StepOrder(options)
                /\ \A i \in 1..Len(calls) : CallOk(calls[i])
                /\ optErr = NoErr /\ t2 # << >>)
         /\ result.file # {} => result.file = {calls[1].r}

C8_Witness ==
    /\ Done /\ options.Rs485Enable
    /\ Len(calls) = 3 /\ ~CallOk(calls[3])
    /\ result.file = {}

\* ----------------------------------------------------------------------- C9
CtlName(req) == IF req = kTCSETS2 THEN "SYS_IOCTL" ELSE "SYS_IOCTL (RS485)"

CtlUnknown(req) ==
    IF req = kTCSETS2 THEN "unknown error from SYS_IOCTL"
    ELSE "Unknown error from SYS_IOCTL (RS485)"

\* C9: each control call's outcome falls in one of three disjoint cases:
\* nonzero errno gives a syscall error naming the call, zero errno with a
\* nonzero result gives the unknown-failure error naming the call, zero errno
\* with zero result is success; the unknown failure is never reported with a
\* nonzero errno and the two calls' errors differ.
C9_ControlCallOutcomeClassified ==
    \A i \in Ioctls(kTCSETS2) \cup Ioctls(tIOCSRS485) :
        LET c == calls[i]
        IN  /\ c.errno # 0 =>
                 (Done /\ result.err = NewSyscallError(CtlName(c.req), c.errno))
            /\ (c.errno = 0 /\ c.r # 0) =>
                 (Done /\ result.err = errorsNew(CtlUnknown(c.req)))
            /\ (c.errno = 0 /\ c.r = 0) =>
                 (i = Len(calls) =>
                     (pc \in {"rs485", "return"} \/ (Done /\ result.err = NoErr)))
            /\ (Done /\ result.err = errorsNew(CtlUnknown(c.req))) =>
                 (c.errno = 0 /\ c.r # 0)
            /\ CtlName(kTCSETS2) # CtlName(tIOCSRS485)
            /\ CtlUnknown(kTCSETS2) # CtlUnknown(tIOCSRS485)
            /\ NewSyscallError(CtlName(c.req), c.errno) # errorsNew(CtlUnknown(c.req))

C9_Witness ==
    /\ Done
    /\ \E i \in Ioctls(tIOCSRS485) : calls[i].errno # 0 /\ calls[i].r # 0
    /\ result.err.kind = "SyscallError" /\ result.err.text = "SYS_IOCTL (RS485)"

\* ---------------------------------------------------------------------- C10
\* C10: a control block applied to the device has its minimum-bytes slot equal
\* to MinimumReadSize and never has both the minimum-bytes slot and the
\* timeout slot equal to zero.
C10_AppliedBlockKeepsMinimumReadSize ==
    \A i \in Ioctls(kTCSETS2) :
        LET b == calls[i].arg[1]
        IN  /\ b.c_cc[VMIN] = options.MinimumReadSize
            /\ ~(b.c_cc[VMIN] = 0 /\ b.c_cc[VTIME] = 0)

====
